---- MODULE Spec2Model ----
(***************************************************************************)
(* A model of the specter_nif registry (state.rs) and of the per-          *)
(* connection actor with its host-facing commands (peer_connection/mod.rs).*)
(*                                                                         *)
(* Identifiers produced by gen_uuid are modelled as the naturals           *)
(* 1, 2, 3, ... handed out in order.  A host call may be given any         *)
(* identifier produced so far, the string UnknownId that was never         *)
(* produced, or BadTerm, a term that does not decode to a String.          *)
(***************************************************************************)
EXTENDS Integers, Sequences, FiniteSets, TLC

\* ------------------------------------------------------------------ bounds
MaxIds == 5
MaxCmds == 2
MaxIce == 1

\* ------------------------------------------------------- program constants
MailboxCapacity == 1000

UnknownId == -1
BadTerm == -2

Ids == 1..MaxIds

VARIABLES
    media_engines,      \* State.media_engines: the ids of the registered MediaEngines
    registries,         \* State.registries
    apis,               \* State.apis
    peer_connections,   \* State.peer_connections: the ids whose Sender the registry holds
    tracks,             \* the registered TrackLocalStaticSample handles
    config,             \* State.config: the ice_servers given to init
    pid,                \* State.pid: the process that called init
    poisoned,           \* the Mutex<State> is poisoned
    guard,              \* the connection id whose task holds the Mutex<State>, 0 when none
    nextId,             \* the next identifier gen_uuid hands out
    pc,                 \* per connection id: the position of its actor task
    cur,                \* per connection id: the Msg its actor is executing
    mailbox,            \* per connection id: the mpsc channel's buffer
    sendTasks,          \* the spawned tasks still awaiting tx.send(msg)
    observer,           \* the connection ids whose on_ice_candidate observer is installed
    rtp_senders,        \* per connection id: the keys of the actor's rtp_senders map
    snapshot,           \* per connection id: the (rtc_config, pid) its task took from State
    events,             \* the messages sent to the subscriber, in order
    sentTo,             \* history: the pid each of them was sent to
    nextSeq,            \* history: the number of the next accepted command
    iceCount,           \* history: callbacks the engine made to the ICE observers
    candidates,         \* history: those of them that carried a candidate
    closeOk,            \* history: the connection ids whose close returned ok
    atClose,            \* history: per connection id, the commands buffered when close removed the Sender
    pendingAtClose,     \* history: per connection id, the commands still with a send task then
    dequeued,           \* history: per connection id, the commands rx.recv() returned, in order
    builds              \* history: the new_registry and new_api calls that returned an id

vars == <<media_engines, registries, apis, peer_connections, tracks, poisoned, guard, nextId,
          pc, cur, mailbox, sendTasks, observer, rtp_senders, events,
          config, pid, snapshot, sentTo,
          nextSeq, iceCount, candidates, closeOk, atClose, pendingAtClose, dequeued, builds>>

registryVars == <<media_engines, registries, apis, peer_connections, tracks>>
actorVars == <<pc, cur, mailbox, observer, rtp_senders>>
histVars == <<nextSeq, iceCount, candidates, closeOk, atClose, pendingAtClose, dequeued, builds>>

\* ------------------------------------------------------------- the protocol

\* enum Msg
MsgKinds ==
    {"AddIceCandidate", "AddTrack", "CreateAnswer", "CreateDataChannel", "CreateOffer",
     "GetCurrentLocalDescription", "GetCurrentRemoteDescription", "GetLocalDescription",
     "GetPendingLocalDescription", "GetPendingRemoteDescription", "GetRemoteDescription",
     "GetStats", "SetLocalDescription", "SetRemoteDescription",
     "IceConnectionState", "IceGatheringState", "SignalingState", "ConnectionState"}

\* The host calls that only look the connection up and send one Msg.
PlainKinds ==
    MsgKinds \ {"AddIceCandidate", "AddTrack", "SetLocalDescription", "SetRemoteDescription"}

DescriptionKinds ==
    {"GetCurrentLocalDescription", "GetCurrentRemoteDescription", "GetLocalDescription",
     "GetPendingLocalDescription", "GetPendingRemoteDescription", "GetRemoteDescription"}

\* The payload strings a host passes where JSON is expected.
Payloads == {"not json", "sdp json", "candidate json"}

\* serde_json::from_str::<RTCSessionDescription>: Ok exactly for an object with type and sdp
ParsesAsSessionDescription(p) == p = "sdp json"

\* serde_json::from_str::<RTCIceCandidateInit>: Ok exactly for an object with a candidate
ParsesAsIceCandidateInit(p) == p = "candidate json"

NoMsg == [kind |-> "none", seq |-> 0, track |-> 0]
Msg(k, n, t) == [kind |-> k, seq |-> n, track |-> t]

\* A message to the subscriber: (tag, id [, payload]); seq is the history of the
\* command that caused it (0 for none), sender the generated rtp sender id.
Event(t, i, n, p, s) == [tag |-> t, id |-> i, seq |-> n, payload |-> p, sender |-> s]

\* Config::new
Config_new(ice_servers) == [ice_servers |-> ice_servers]

\* A configuration whose one RTCIceServer lists the urls in the opposite order.
RTCConfigurationFromReversed(c) ==
    [ice_servers |->
        <<[urls |-> [k \in 1..Len(c.ice_servers) |->
                        c.ice_servers[Len(c.ice_servers) + 1 - k]]]>>]

\* impl From<&Config> for RTCConfiguration: one RTCIceServer with the urls of config
RTCConfigurationFrom(c) == [ice_servers |-> <<[urls |-> c.ice_servers]>>]

\* The ice_servers lists a host gives to init.
IceServerLists == {<<>>, <<"stun:a", "turn:b">>, <<"turn:b", "stun:a">>}

\* The processes that can call init.
Pids == {"pid1", "pid2"}

\* The locals (pc, pid) of an actor task that has not read State yet.
NoSnapshot == [rtc_config |-> [ice_servers |-> <<>>], pid |-> "none"]

\* The terms a host can pass: ids it was given, a string never produced, a non-string.
Terms == (1..(nextId - 1)) \cup {UnknownId, BadTerm}

\* history: the call op given the MediaEngine m and the InterceptorRegistry g (0 for
\* none) returned id.
Built(op, m, g, id) == [op |-> op, m |-> m, g |-> g, id |-> id]

\* The positions at which the actor task has ended and dropped rx and the handle.
Ended == {"failed", "done", "lock_panic", "engine_panic"}

\* ------------------------------------------------------------------- Init

\* State::new and init: empty tables, an unpoisoned guard, no task.
Init ==
    /\ media_engines = {}
    /\ registries = {}
    /\ apis = {}
    /\ peer_connections = {}
    /\ tracks = {}
    /\ poisoned = FALSE
    /\ guard = 0
    /\ nextId = 1
    /\ pc = [i \in Ids |-> "none"]
    /\ cur = [i \in Ids |-> NoMsg]
    /\ mailbox = [i \in Ids |-> <<>>]
    /\ sendTasks = {}
    /\ observer = {}
    /\ rtp_senders = [i \in Ids |-> {}]
    /\ events = <<>>
    /\ config = Config_new(<<"stun:a", "turn:b">>)
    /\ pid = "pid1"
    /\ snapshot = [i \in Ids |-> NoSnapshot]
    /\ sentTo = <<>>
    /\ nextSeq = 1
    /\ iceCount = 0
    /\ candidates = 0
    /\ closeOk = {}
    /\ atClose = [i \in Ids |-> {}]
    /\ pendingAtClose = [i \in Ids |-> {}]
    /\ dequeued = [i \in Ids |-> <<>>]
    /\ builds = {}

\* ------------------------------------------------------------- host calls
\* Each host call is a result operator, the tag the call returns in the current
\* state ("panic" when it faults instead of returning), and an action with the
\* call's effect.  A call that returns an error tag without effect is a step that
\* changes nothing.

\* The call faulted while it held the guard: the Mutex is poisoned from now on.
Panicked == poisoned' = TRUE /\ UNCHANGED <<registryVars, guard, nextId, actorVars,
                                             config, pid, snapshot,
                                             sendTasks, events, sentTo, histVars>>

\* What a host call leaves alone when it changes registry tables or spawns a task.
HostFrame == UNCHANGED <<poisoned, guard, cur, mailbox, observer, rtp_senders, events, sentTo,
                         config, pid, snapshot,
                         iceCount, candidates,
                         dequeued>>

\* The call's effect by its result: eff when it returned ok.
HostCall(res, eff) ==
    /\ guard = 0
    /\ CASE res = "ok" -> eff
         [] res = "panic" -> Panicked
         [] OTHER -> UNCHANGED vars

\* -------------------------------------------------------------- state.rs

new_media_engine_result(codecs_ok) ==
    IF poisoned THEN "lock_fail"
    ELSE IF ~codecs_ok THEN "webrtc_error"
    ELSE "ok"

new_media_engine ==
    \E codecs_ok \in BOOLEAN :
        HostCall(new_media_engine_result(codecs_ok),
                 /\ nextId <= MaxIds
                 /\ media_engines' = media_engines \cup {nextId}
                 /\ nextId' = nextId + 1
                 /\ HostFrame
                 /\ UNCHANGED <<registries, apis, peer_connections, tracks, pc, sendTasks,
                                nextSeq, closeOk, atClose, pendingAtClose, builds>>)

new_registry_result(m, interceptors_ok) ==
    IF poisoned THEN "lock_fail"
    ELSE IF m = BadTerm THEN "panic"
    ELSE IF m \notin media_engines THEN "not_found"
    ELSE IF ~interceptors_ok THEN "webrtc_error"
    ELSE "ok"

\* new_registry taking the MediaEngine out of the table, as new_api does.
new_registry_taking_media_engine(m) ==
    \E interceptors_ok \in BOOLEAN :
        HostCall(new_registry_result(m, interceptors_ok),
                 /\ nextId <= MaxIds
                 /\ media_engines' = media_engines \ {m}
                 /\ registries' = registries \cup {nextId}
                 /\ nextId' = nextId + 1
                 /\ HostFrame
                 /\ UNCHANGED <<apis, peer_connections, tracks, pc, sendTasks,
                                nextSeq, closeOk, atClose, pendingAtClose>>
                 /\ builds' = builds \cup {Built("new_registry", m, 0, nextId)})

new_registry(m) ==
    \E interceptors_ok \in BOOLEAN :
        HostCall(new_registry_result(m, interceptors_ok),
                 /\ nextId <= MaxIds
                 /\ registries' = registries \cup {nextId}
                 /\ nextId' = nextId + 1
                 /\ HostFrame
                 /\ UNCHANGED <<media_engines, apis, peer_connections, tracks, pc, sendTasks,
                                nextSeq, closeOk, atClose, pendingAtClose>>
                 /\ builds' = builds \cup {Built("new_registry", m, 0, nextId)})

new_api_result(m, g) ==
    IF poisoned THEN "lock_fail"
    ELSE IF m = BadTerm THEN "panic"
    ELSE IF m \notin media_engines THEN "not_found"
    ELSE IF g = BadTerm THEN "panic"
    ELSE IF g \notin registries THEN "not_found"
    ELSE "ok"

\* remove_media_engine has removed m when the registry is looked up.
new_api(m, g) ==
    IF ~poisoned /\ m \in media_engines /\ new_api_result(m, g) # "ok"
    THEN /\ guard = 0
         /\ media_engines' = media_engines \ {m}
         /\ poisoned' = (g = BadTerm)
         /\ UNCHANGED <<registries, apis, peer_connections, tracks, guard, nextId,
                        actorVars, sendTasks, events, sentTo, histVars,
                        config, pid, snapshot>>
    ELSE HostCall(new_api_result(m, g),
                  /\ nextId <= MaxIds
                  /\ media_engines' = media_engines \ {m}
                  /\ registries' = registries \ {g}
                  /\ apis' = apis \cup {nextId}
                  /\ nextId' = nextId + 1
                  /\ HostFrame
                  /\ builds' = builds \cup {Built("new_api", m, g, nextId)}
                  /\ UNCHANGED <<peer_connections, tracks, pc, sendTasks, nextSeq, closeOk,
                                 atClose, pendingAtClose>>)

\* media_engine_exists, registry_exists, peer_connection_exists over their table
exists_result(table, t) ==
    IF poisoned THEN "lock_fail"
    ELSE IF t = BadTerm THEN "panic"
    ELSE IF t \in table THEN "true"
    ELSE "false"

media_engine_exists(t) == HostCall(exists_result(media_engines, t), FALSE)

registry_exists(t) == HostCall(exists_result(registries, t), FALSE)

peer_connection_exists(t) == HostCall(exists_result(peer_connections, t), FALSE)

new_track_local_static_sample_result == IF poisoned THEN "lock_fail" ELSE "ok"

\* Registers a TrackLocalStaticSample under a fresh id.
new_track_local_static_sample ==
    HostCall(new_track_local_static_sample_result,
             /\ nextId <= MaxIds
             /\ tracks' = tracks \cup {nextId}
             /\ nextId' = nextId + 1
             /\ HostFrame
             /\ UNCHANGED <<media_engines, registries, apis, peer_connections, pc, sendTasks,
                            nextSeq, closeOk, atClose, pendingAtClose, builds>>)

\* ------------------------------------------------ peer_connection/mod.rs

\* new_peer_connection: lock().unwrap(), get_api
\* new looking its argument up by id alone, whatever the kind of the entry.
new_result_any_kind(a) ==
    IF poisoned THEN "panic"
    ELSE IF a = BadTerm THEN "panic"
    ELSE IF a \notin apis \cup media_engines \cup registries \cup tracks THEN "not_found"
    ELSE "ok"

new_result(a) ==
    IF poisoned THEN "panic"
    ELSE IF a = BadTerm THEN "panic"
    ELSE IF a \notin apis THEN "not_found"
    ELSE "ok"

\* new taking the Api out of the table instead of cloning its Arc.
new_taking_api(a) ==
    HostCall(new_result(a),
             /\ nextId <= MaxIds
             /\ apis' = apis \ {a}
             /\ pc' = [pc EXCEPT ![nextId] = "start"]
             /\ nextId' = nextId + 1
             /\ HostFrame
             /\ UNCHANGED <<media_engines, registries, peer_connections, tracks, sendTasks,
                            nextSeq, closeOk, atClose, pendingAtClose, builds>>)

\* gen_uuid, spawn_rtc_peer_connection, Ok(uuid)
new(a) ==
    HostCall(new_result(a),
             /\ nextId <= MaxIds
             /\ pc' = [pc EXCEPT ![nextId] = "start"]
             /\ nextId' = nextId + 1
             /\ HostFrame
             /\ UNCHANGED <<registryVars, sendTasks, nextSeq, closeOk, atClose,
                            pendingAtClose, builds>>)

close_result(t) ==
    IF poisoned THEN "lock_fail"
    ELSE IF t = BadTerm THEN "panic"
    ELSE IF t \notin peer_connections THEN "not_found"
    ELSE "ok"

\* close_peer_connection: remove_peer_connection drops the registry's Sender.
close(t) ==
    HostCall(close_result(t),
             /\ peer_connections' = peer_connections \ {t}
             /\ closeOk' = closeOk \cup {t}
             /\ atClose' = [atClose EXCEPT
                              ![t] = {mailbox[t][k].seq : k \in 1..Len(mailbox[t])}]
             /\ pendingAtClose' = [pendingAtClose EXCEPT
                              ![t] = {s.msg.seq : s \in {x \in sendTasks : x.conn = t}}]
             /\ HostFrame
             /\ UNCHANGED <<media_engines, registries, apis, tracks, nextId, pc, sendTasks,
                            nextSeq, builds>>)

\* tx.clone() and task::spawn(async move { tx.send(msg).await }): the call returns ok
\* and the send is left to the spawned task.
SpawnSend(t, kind, tr) ==
    /\ nextSeq <= MaxCmds
    /\ sendTasks' = sendTasks \cup {[conn |-> t, msg |-> Msg(kind, nextSeq, tr)]}
    /\ nextSeq' = nextSeq + 1
    /\ HostFrame
    /\ UNCHANGED <<registryVars, nextId, pc, closeOk, atClose, pendingAtClose, builds>>

add_ice_candidate_result(t, p) ==
    IF poisoned THEN "lock_fail"
    ELSE IF t = BadTerm THEN "panic"
    ELSE IF t \notin peer_connections THEN "not_found"
    ELSE IF ~ParsesAsIceCandidateInit(p) THEN "invalid_json"
    ELSE "ok"

add_ice_candidate(t, p) ==
    HostCall(add_ice_candidate_result(t, p), SpawnSend(t, "AddIceCandidate", 0))

add_track_result(t, tr) ==
    IF poisoned THEN "lock_fail"
    ELSE IF t = BadTerm THEN "panic"
    ELSE IF t \notin peer_connections THEN "not_found"
    ELSE IF tr = BadTerm THEN "panic"
    ELSE IF tr \notin tracks THEN "invalid_track"
    ELSE "ok"

\* add_track taking the track out of its table when it hands it to the actor.
add_track_taking_track(t, tr) ==
    HostCall(add_track_result(t, tr),
             /\ nextSeq <= MaxCmds
             /\ sendTasks' = sendTasks \cup {[conn |-> t, msg |-> Msg("AddTrack", nextSeq, tr)]}
             /\ nextSeq' = nextSeq + 1
             /\ tracks' = tracks \ {tr}
             /\ HostFrame
             /\ UNCHANGED <<media_engines, registries, apis, peer_connections, nextId, pc,
                            closeOk, atClose, pendingAtClose, builds>>)

add_track(t, tr) ==
    HostCall(add_track_result(t, tr), SpawnSend(t, "AddTrack", tr))

set_local_description_result(t, p) ==
    IF poisoned THEN "lock_fail"
    ELSE IF t = BadTerm THEN "panic"
    ELSE IF t \notin peer_connections THEN "not_found"
    ELSE IF ~ParsesAsSessionDescription(p) THEN "invalid_json"
    ELSE "ok"

set_local_description(t, p) ==
    HostCall(set_local_description_result(t, p), SpawnSend(t, "SetLocalDescription", 0))

\* set_remote_description parsing its payload before it looks the connection up.
set_remote_description_parse_first(t, p) ==
    IF ~ParsesAsSessionDescription(p) THEN "invalid_json"
    ELSE IF poisoned THEN "lock_fail"
    ELSE IF t = BadTerm THEN "panic"
    ELSE IF t \notin peer_connections THEN "not_found"
    ELSE "ok"

set_remote_description_result(t, p) ==
    IF poisoned THEN "lock_fail"
    ELSE IF t = BadTerm THEN "panic"
    ELSE IF t \notin peer_connections THEN "not_found"
    ELSE IF ~ParsesAsSessionDescription(p) THEN "invalid_json"
    ELSE "ok"

set_remote_description(t, p) ==
    HostCall(set_remote_description_result(t, p), SpawnSend(t, "SetRemoteDescription", 0))

\* create_answer, create_data_channel, create_offer, the six description getters,
\* get_stats and the four state queries: lock, get_peer_connection, spawn the send.
plain_command_result(t) ==
    IF poisoned THEN "lock_fail"
    ELSE IF t = BadTerm THEN "panic"
    ELSE IF t \notin peer_connections THEN "not_found"
    ELSE "ok"

plain_command(t, kind) == HostCall(plain_command_result(t), SpawnSend(t, kind, 0))

create_answer(t) == plain_command(t, "CreateAnswer")
create_data_channel(t) == plain_command(t, "CreateDataChannel")
create_offer(t) == plain_command(t, "CreateOffer")
current_local_description(t) == plain_command(t, "GetCurrentLocalDescription")
current_remote_description(t) == plain_command(t, "GetCurrentRemoteDescription")
pending_local_description(t) == plain_command(t, "GetPendingLocalDescription")
pending_remote_description(t) == plain_command(t, "GetPendingRemoteDescription")
local_description(t) == plain_command(t, "GetLocalDescription")
remote_description(t) == plain_command(t, "GetRemoteDescription")
get_stats(t) == plain_command(t, "GetStats")
ice_connection_state(t) == plain_command(t, "IceConnectionState")
ice_gathering_state(t) == plain_command(t, "IceGatheringState")
signaling_state(t) == plain_command(t, "SignalingState")
connection_state(t) == plain_command(t, "ConnectionState")

\* ------------------------------------------- peer_connection/peer_conn_state.rs

RTCIceConnectionStates ==
    {"RTCIceConnectionState::Checking", "RTCIceConnectionState::Closed",
     "RTCIceConnectionState::Completed", "RTCIceConnectionState::Connected",
     "RTCIceConnectionState::Disconnected", "RTCIceConnectionState::Failed",
     "RTCIceConnectionState::New", "RTCIceConnectionState::Unspecified"}

IceConnectionStateFrom(state) ==
    CASE state = "RTCIceConnectionState::Checking" -> "checking"
      [] state = "RTCIceConnectionState::Closed" -> "closed"
      [] state = "RTCIceConnectionState::Completed" -> "completed"
      [] state = "RTCIceConnectionState::Connected" -> "connected"
      [] state = "RTCIceConnectionState::Disconnected" -> "disconnected"
      [] state = "RTCIceConnectionState::Failed" -> "failed"
      [] state = "RTCIceConnectionState::New" -> "new"
      [] state = "RTCIceConnectionState::Unspecified" -> "unspecified"

RTCIceGatheringStates ==
    {"RTCIceGatheringState::Complete", "RTCIceGatheringState::Gathering",
     "RTCIceGatheringState::New", "RTCIceGatheringState::Unspecified"}

\* The gathering states mapped without a match on the engine's value.
IceGatheringStateFromCollapsed(state) == "new"

IceGatheringStateFrom(state) ==
    CASE state = "RTCIceGatheringState::Complete" -> "complete"
      [] state = "RTCIceGatheringState::Gathering" -> "gathering"
      [] state = "RTCIceGatheringState::New" -> "new"
      [] state = "RTCIceGatheringState::Unspecified" -> "unspecified"

RTCSignalingStates ==
    {"RTCSignalingState::Closed", "RTCSignalingState::HaveLocalOffer",
     "RTCSignalingState::HaveLocalPranswer", "RTCSignalingState::HaveRemoteOffer",
     "RTCSignalingState::HaveRemotePranswer", "RTCSignalingState::Stable",
     "RTCSignalingState::Unspecified"}

SignalingStateFrom(state) ==
    CASE state = "RTCSignalingState::Closed" -> "closed"
      [] state = "RTCSignalingState::HaveLocalOffer" -> "have_local_offer"
      [] state = "RTCSignalingState::HaveLocalPranswer" -> "have_local_pranswer"
      [] state = "RTCSignalingState::HaveRemoteOffer" -> "have_remote_offer"
      [] state = "RTCSignalingState::HaveRemotePranswer" -> "have_remote_pranswer"
      [] state = "RTCSignalingState::Stable" -> "stable"
      [] state = "RTCSignalingState::Unspecified" -> "unspecified"

RTCPeerConnectionStates ==
    {"RTCPeerConnectionState::Closed", "RTCPeerConnectionState::Connected",
     "RTCPeerConnectionState::Connecting", "RTCPeerConnectionState::Disconnected",
     "RTCPeerConnectionState::Failed", "RTCPeerConnectionState::New",
     "RTCPeerConnectionState::Unspecified"}

ConnectionStateFrom(state) ==
    CASE state = "RTCPeerConnectionState::Closed" -> "closed"
      [] state = "RTCPeerConnectionState::Connected" -> "connected"
      [] state = "RTCPeerConnectionState::Connecting" -> "connecting"
      [] state = "RTCPeerConnectionState::Disconnected" -> "disconnected"
      [] state = "RTCPeerConnectionState::Failed" -> "failed"
      [] state = "RTCPeerConnectionState::New" -> "new"
      [] state = "RTCPeerConnectionState::Unspecified" -> "unspecified"

\* Term::list_prepend of each server in turn: the list with the last server first
ListPrependAll(s) == [k \in 1..Len(s) |-> s[Len(s) + 1 - k]]

\* Term::list_reverse
ListReverse(s) == [k \in 1..Len(s) |-> s[Len(s) + 1 - k]]

\* impl Encoder for Config: the Specter.Config struct the host is given
ConfigEncode(c) == [ice_servers |-> ListReverse(ListPrependAll(c.ice_servers))]

get_config_result == IF poisoned THEN "lock_fail" ELSE "ok"

\* config: the stored configuration, encoded; the call writes nothing
get_config == HostCall(get_config_result, UNCHANGED vars)

\* ------------------------------------------------- the actor: one task per id

\* What the transport engine can answer to the operation a Msg stands for.
EngineResults(kind) ==
    CASE kind \in {"AddIceCandidate", "AddTrack", "CreateAnswer", "CreateDataChannel",
                   "CreateOffer", "SetLocalDescription", "SetRemoteDescription"}
            -> {"Ok", "Err"}
      [] kind \in DescriptionKinds -> {"Some", "None"}
      [] kind = "GetStats" -> {"stats"}
      [] kind = "IceConnectionState" -> RTCIceConnectionStates
      [] kind = "IceGatheringState" -> RTCIceGatheringStates
      [] kind = "SignalingState" -> RTCSignalingStates
      [] kind = "ConnectionState" -> RTCPeerConnectionStates

\* Every description getter answering under the tag of local_description.
DescriptionTagLocalOnly(kind) == "local_description"

\* atoms.rs: the atom a description getter tags its answer with
DescriptionTag(kind) ==
    CASE kind = "GetCurrentLocalDescription" -> "current_local_description"
      [] kind = "GetCurrentRemoteDescription" -> "current_remote_description"
      [] kind = "GetLocalDescription" -> "local_description"
      [] kind = "GetPendingLocalDescription" -> "pending_local_description"
      [] kind = "GetPendingRemoteDescription" -> "pending_remote_description"
      [] kind = "GetRemoteDescription" -> "remote_description"

\* Every arm answering with offer_error and the engine's message.
OutcomeOfferErrorOnly(i, m, r) == Event("offer_error", i, m.seq, "err", 0)

\* The receive loop's arms, AddTrack aside: the message sent for Msg m of
\* connection i when the engine answered r.
Outcome(i, m, r) ==
    LET e(tag, p) == Event(tag, i, m.seq, p, 0) IN
    CASE m.kind = "AddIceCandidate" ->
            IF r = "Err" THEN e("candidate_error", "err") ELSE e("ok", "add_ice_candidate")
      [] m.kind = "CreateAnswer" ->
            IF r = "Err" THEN e("answer_error", "err") ELSE e("answer", "json")
      [] m.kind = "CreateDataChannel" ->
            IF r = "Err" THEN e("offer_error", "err") ELSE e("data_channel_created", "")
      [] m.kind = "CreateOffer" ->
            IF r = "Err" THEN e("offer_error", "err") ELSE e("offer", "json")
      [] m.kind \in DescriptionKinds ->
            e(DescriptionTag(m.kind), IF r = "None" THEN "nil" ELSE "json")
      [] m.kind = "GetStats" -> e("stats", "json")
      [] m.kind = "SetLocalDescription" ->
            IF r = "Err" THEN e("invalid_local_description", "err")
            ELSE e("ok", "set_local_description")
      [] m.kind = "SetRemoteDescription" ->
            IF r = "Err" THEN e("invalid_remote_description", "err")
            ELSE e("ok", "set_remote_description")
      [] m.kind = "IceConnectionState" -> e("ice_connection_state", IceConnectionStateFrom(r))
      [] m.kind = "IceGatheringState" -> e("ice_gathering_state", IceGatheringStateFrom(r))
      [] m.kind = "SignalingState" -> e("signaling_state", SignalingStateFrom(r))
      [] m.kind = "ConnectionState" -> e("connection_state", ConnectionStateFrom(r))

\* A step of a task: no host call returns in it.
LockFrame == UNCHANGED <<media_engines, registries, apis, tracks, poisoned, closeOk, atClose,
                         config, pid,
                         pendingAtClose, nextSeq, iceCount, candidates, builds>>

\* A step of a task that neither takes nor drops the guard, or does both.
TaskFrame == LockFrame /\ UNCHANGED <<guard, snapshot>>

\* lock().unwrap(): the task takes the guard, or faults on a poisoned one
ActorStart(i) ==
    /\ pc[i] = "start"
    /\ guard = 0
    /\ pc' = [pc EXCEPT ![i] = IF poisoned THEN "lock_panic" ELSE "configuring"]
    /\ guard' = IF poisoned THEN 0 ELSE i
    /\ LockFrame
    /\ UNCHANGED <<peer_connections, nextId, cur, mailbox, sendTasks, observer, dequeued,
                   rtp_senders, events, sentTo, snapshot>>

\* The block's end reached with the guard kept across pc.await.
ActorConfigureAwaitingUnderGuard(i) ==
    /\ pc[i] = "configuring"
    /\ guard = i
    /\ pc' = [pc EXCEPT ![i] = "building"]
    /\ UNCHANGED guard
    /\ snapshot' = [snapshot EXCEPT ![i] =
                        [rtc_config |-> RTCConfigurationFrom(config), pid |-> pid]]
    /\ LockFrame
    /\ UNCHANGED <<peer_connections, nextId, cur, mailbox, sendTasks, observer, dequeued,
                   rtp_senders, events, sentTo>>

\* The configuration snapshot and the api.new_peer_connection(rtc_config) future are
\* made inside the block; the guard is dropped at the block's end, before pc.await.
ActorConfigure(i) ==
    /\ pc[i] = "configuring"
    /\ guard = i
    /\ pc' = [pc EXCEPT ![i] = "building"]
    /\ guard' = 0
    /\ snapshot' = [snapshot EXCEPT ![i] =
                        [rtc_config |-> RTCConfigurationFrom(config), pid |-> pid]]
    /\ LockFrame
    /\ UNCHANGED <<peer_connections, nextId, cur, mailbox, sendTasks, observer, dequeued,
                   rtp_senders, events, sentTo>>

\* pc.await: Err sends peer_connection_error and returns
ActorBuilt(i) ==
    /\ pc[i] = "building"
    /\ \E built \in BOOLEAN :
        /\ pc' = [pc EXCEPT ![i] = IF built THEN "built" ELSE "failed"]
        /\ events' = IF built THEN events
                     ELSE Append(events, Event("peer_connection_error", i, 0, "", 0))
        /\ sentTo' = IF built THEN sentTo ELSE Append(sentTo, snapshot[i].pid)
    /\ TaskFrame
    /\ UNCHANGED <<peer_connections, nextId, cur, mailbox, sendTasks, observer, rtp_senders,
                   dequeued>>

\* The task sending peer_connection_ready without having inserted the Sender.
ActorRegisterReadyOnly(i) ==
    /\ pc[i] = "built"
    /\ guard = 0
    /\ IF poisoned
       THEN /\ pc' = [pc EXCEPT ![i] = "lock_panic"]
            /\ UNCHANGED <<mailbox, events, sentTo>>
       ELSE /\ pc' = [pc EXCEPT ![i] = "installing"]
            /\ mailbox' = [mailbox EXCEPT ![i] = <<>>]
            /\ events' = Append(events, Event("peer_connection_ready", i, 0, "", 0))
            /\ sentTo' = Append(sentTo, pid)
    /\ UNCHANGED <<media_engines, registries, apis, tracks, poisoned, guard,
                   peer_connections, config, pid, snapshot>>
    /\ UNCHANGED <<nextId, cur, sendTasks, observer, rtp_senders, histVars>>

\* channel(1000), lock().unwrap(), add_peer_connection, peer_connection_ready
ActorRegister(i) ==
    /\ pc[i] = "built"
    /\ guard = 0
    /\ IF poisoned
       THEN /\ pc' = [pc EXCEPT ![i] = "lock_panic"]
            /\ UNCHANGED <<peer_connections, mailbox, events, sentTo>>
       ELSE /\ pc' = [pc EXCEPT ![i] = "installing"]
            /\ peer_connections' = peer_connections \cup {i}
            /\ mailbox' = [mailbox EXCEPT ![i] = <<>>]
            /\ events' = Append(events, Event("peer_connection_ready", i, 0, "", 0))
            /\ sentTo' = Append(sentTo, pid)
    /\ TaskFrame
    /\ UNCHANGED <<nextId, cur, sendTasks, observer, rtp_senders, dequeued>>

\* pc.on_ice_candidate(...).await
ActorInstall(i) ==
    /\ pc[i] = "installing"
    /\ observer' = observer \cup {i}
    /\ pc' = [pc EXCEPT ![i] = "recv"]
    /\ TaskFrame
    /\ UNCHANGED <<peer_connections, nextId, cur, mailbox, sendTasks, rtp_senders, events, sentTo,
                   dequeued>>

\* The registry's Sender is dropped, the clones the send tasks hold not counted.
RegistrySenderDropped(i) == i \notin peer_connections

\* Every Sender of the channel is dropped: the registry's and each send task's clone.
NoSenders(i) == i \notin peer_connections /\ \A t \in sendTasks : t.conn # i

\* A receive that reports the end of the stream as soon as every Sender is dropped,
\* with Msgs still buffered.
EndOfStreamDroppingBuffer(i) == NoSenders(i)

\* rx.recv() yields None: the channel is closed and its buffer is empty.
EndOfStream(i) == mailbox[i] = <<>> /\ NoSenders(i)

\* A loop that receives the next Msg while the arm of the previous one still runs.
ActorRecvOverlapping(i) ==
    /\ pc[i] \in {"recv", "exec"}
    /\ IF EndOfStream(i) /\ pc[i] = "recv"
       THEN /\ pc' = [pc EXCEPT ![i] = "closing"]
            /\ UNCHANGED <<cur, mailbox, dequeued>>
       ELSE /\ mailbox[i] # <<>>
            /\ cur' = [cur EXCEPT ![i] = Head(mailbox[i])]
            /\ mailbox' = [mailbox EXCEPT ![i] = Tail(mailbox[i])]
            /\ dequeued' = [dequeued EXCEPT ![i] = Append(@, Head(mailbox[i]).seq)]
            /\ pc' = [pc EXCEPT ![i] = "exec"]
    /\ UNCHANGED <<media_engines, registries, apis, tracks, poisoned, guard, closeOk,
                   atClose, pendingAtClose, config, pid, snapshot,
                   nextSeq, iceCount, candidates, builds>>
    /\ UNCHANGED <<peer_connections, nextId, sendTasks, observer, rtp_senders, events, sentTo>>

\* rx.recv().await: the next Msg, or None => break
ActorRecv(i) ==
    /\ pc[i] = "recv"
    /\ IF EndOfStream(i)
       THEN /\ pc' = [pc EXCEPT ![i] = "closing"]
            /\ UNCHANGED <<cur, mailbox, dequeued>>
       ELSE /\ mailbox[i] # <<>>
            /\ cur' = [cur EXCEPT ![i] = Head(mailbox[i])]
            /\ mailbox' = [mailbox EXCEPT ![i] = Tail(mailbox[i])]
            /\ dequeued' = [dequeued EXCEPT ![i] = Append(@, Head(mailbox[i]).seq)]
            /\ pc' = [pc EXCEPT ![i] = "exec"]
    /\ TaskFrame
    /\ UNCHANGED <<peer_connections, nextId, sendTasks, observer, rtp_senders, events, sentTo>>

\* A sender id that is the same for every Msg.
SenderIdReused(m) == MaxIds + 1

\* gen_uuid() in the AddTrack arm: a value no other call of gen_uuid returns, one
\* per Msg; the ids handed to the host are 1..MaxIds.
SenderId(m) == MaxIds + m.seq

\* Msg::AddTrack: add_track(track).await.unwrap(), gen_uuid, rtp_senders.insert, rtp_sender
AddTrackArm(i, r) ==
    IF r = "Err"
    THEN /\ pc' = [pc EXCEPT ![i] = "engine_panic"]
         /\ cur' = [cur EXCEPT ![i] = NoMsg]
         /\ mailbox' = [mailbox EXCEPT ![i] = <<>>]
         /\ UNCHANGED <<nextId, rtp_senders, events, sentTo>>
    ELSE /\ rtp_senders' = [rtp_senders EXCEPT ![i] = @ \cup {SenderId(cur[i])}]
         /\ events' = Append(events, Event("rtp_sender", i, cur[i].seq, "", SenderId(cur[i])))
         /\ sentTo' = Append(sentTo, snapshot[i].pid)
         /\ pc' = [pc EXCEPT ![i] = "recv"]
         /\ cur' = [cur EXCEPT ![i] = NoMsg]
         /\ UNCHANGED <<nextId, mailbox>>

\* One arm of the loop: the engine operation completes and its message is sent.
ActorExec(i) ==
    /\ pc[i] = "exec"
    /\ \E r \in EngineResults(cur[i].kind) :
        IF cur[i].kind = "AddTrack" THEN AddTrackArm(i, r)
        ELSE /\ events' = Append(events, Outcome(i, cur[i], r))
             /\ sentTo' = Append(sentTo, snapshot[i].pid)
             /\ pc' = [pc EXCEPT ![i] = "recv"]
             /\ cur' = [cur EXCEPT ![i] = NoMsg]
             /\ UNCHANGED <<nextId, rtp_senders, mailbox>>
    /\ TaskFrame
    /\ UNCHANGED <<peer_connections, sendTasks, observer, dequeued>>

\* after the loop: lock().unwrap(), peer_connection_closed
ActorClosed(i) ==
    /\ pc[i] = "closing"
    /\ guard = 0
    /\ IF poisoned
       THEN /\ pc' = [pc EXCEPT ![i] = "lock_panic"]
            /\ UNCHANGED <<events, sentTo>>
       ELSE /\ pc' = [pc EXCEPT ![i] = "done"]
            /\ events' = Append(events, Event("peer_connection_closed", i, 0, "", 0))
            /\ sentTo' = Append(sentTo, pid)
    /\ TaskFrame
    /\ UNCHANGED <<peer_connections, nextId, cur, mailbox, sendTasks, observer, rtp_senders,
                   dequeued>>

\* task::spawn: the future is handed to the multi-threaded runtime, which may run
\* any spawned task that has not finished next.
Scheduled(t) == t \in sendTasks

\* A send task on a channel without a capacity: the send never waits for space.
SenderSendUnbounded(t) ==
    /\ Scheduled(t)
    /\ mailbox' = IF pc[t.conn] \in Ended THEN mailbox
                  ELSE [mailbox EXCEPT ![t.conn] = Append(@, t.msg)]
    /\ sendTasks' = sendTasks \ {t}
    /\ TaskFrame
    /\ UNCHANGED <<peer_connections, nextId, pc, cur, observer, rtp_senders, events, sentTo,
                   dequeued>>

\* A spawned send task runs: tx.send(msg).await enqueues, or fails once rx is dropped.
SenderSend(t) ==
    /\ Scheduled(t)
    /\ IF pc[t.conn] \in Ended
       THEN UNCHANGED mailbox
       ELSE /\ Len(mailbox[t.conn]) < MailboxCapacity
            /\ mailbox' = [mailbox EXCEPT ![t.conn] = Append(@, t.msg)]
    /\ sendTasks' = sendTasks \ {t}
    /\ TaskFrame
    /\ UNCHANGED <<peer_connections, nextId, pc, cur, observer, rtp_senders, events, sentTo,
                   dequeued>>

\* An observer that sends ice_candidate for the end-of-gathering signal as well.
IceCandidateCallbackSendingNone(i) ==
    /\ i \in observer
    /\ iceCount < MaxIce
    /\ iceCount' = iceCount + 1
    /\ \E c \in {"Some", "None"} :
        /\ events' = Append(events, Event("ice_candidate", i, 0, "json", 0))
        /\ sentTo' = Append(sentTo, snapshot[i].pid)
        /\ candidates' = IF c = "Some" THEN candidates + 1 ELSE candidates
    /\ UNCHANGED <<registryVars, poisoned, guard, nextId, actorVars, sendTasks, nextSeq,
                   closeOk, atClose, pendingAtClose, dequeued, builds, config, pid, snapshot>>

\* The engine calls the on_ice_candidate observer: Some(c) sends ice_candidate,
\* None (the end of gathering) sends nothing.
IceCandidateCallback(i) ==
    /\ i \in observer
    /\ iceCount < MaxIce
    /\ iceCount' = iceCount + 1
    /\ \E c \in {"Some", "None"} :
        /\ events' = IF c = "Some"
                     THEN Append(events, Event("ice_candidate", i, 0, "json", 0))
                     ELSE events
        /\ sentTo' = IF c = "Some" THEN Append(sentTo, snapshot[i].pid) ELSE sentTo
        /\ candidates' = IF c = "Some" THEN candidates + 1 ELSE candidates
    /\ UNCHANGED <<registryVars, poisoned, guard, nextId, actorVars, sendTasks, nextSeq,
                   closeOk, atClose, pendingAtClose, dequeued, builds, config, pid, snapshot>>

\* -------------------------------------------------------------------- Next

Next ==
    \/ get_config
    \/ new_media_engine
    \/ \E m \in Terms : new_registry(m)
    \/ \E m \in Terms, g \in Terms : new_api(m, g)
    \/ \E t \in Terms : media_engine_exists(t)
    \/ \E t \in Terms : registry_exists(t)
    \/ \E t \in Terms : peer_connection_exists(t)
    \/ new_track_local_static_sample
    \/ \E a \in Terms : new(a)
    \/ \E t \in Terms : close(t)
    \/ \E t \in Terms, p \in Payloads : add_ice_candidate(t, p)
    \/ \E t \in Terms, tr \in Terms : add_track(t, tr)
    \/ \E t \in Terms, p \in Payloads : set_local_description(t, p)
    \/ \E t \in Terms, p \in Payloads : set_remote_description(t, p)
    \/ \E t \in Terms : create_answer(t)
    \/ \E t \in Terms : create_data_channel(t)
    \/ \E t \in Terms : create_offer(t)
    \/ \E t \in Terms : current_local_description(t)
    \/ \E t \in Terms : current_remote_description(t)
    \/ \E t \in Terms : pending_local_description(t)
    \/ \E t \in Terms : pending_remote_description(t)
    \/ \E t \in Terms : local_description(t)
    \/ \E t \in Terms : remote_description(t)
    \/ \E t \in Terms : get_stats(t)
    \/ \E t \in Terms : ice_connection_state(t)
    \/ \E t \in Terms : ice_gathering_state(t)
    \/ \E t \in Terms : signaling_state(t)
    \/ \E t \in Terms : connection_state(t)
    \/ \E i \in Ids : ActorStart(i)
    \/ \E i \in Ids : ActorConfigure(i)
    \/ \E i \in Ids : ActorBuilt(i)
    \/ \E i \in Ids : ActorRegister(i)
    \/ \E i \in Ids : ActorInstall(i)
    \/ \E i \in Ids : ActorRecv(i)
    \/ \E i \in Ids : ActorExec(i)
    \/ \E i \in Ids : ActorClosed(i)
    \/ \E t \in sendTasks : SenderSend(t)
    \/ \E i \in Ids : IceCandidateCallback(i)

Spec == Init /\ [][Next]_vars

\* The commands of a connection made from a registered Api: the state the setup
\* chain new_media_engine, new_registry, new_api, new_track_local_static_sample
\* leaves (ids 1 and 2 consumed by the Api 3, the track 4).
InitActor ==
    /\ media_engines = {}
    /\ registries = {}
    /\ apis = {3}
    /\ peer_connections = {}
    /\ tracks = {4}
    /\ poisoned = FALSE
    /\ guard = 0
    /\ nextId = 5
    /\ pc = [i \in Ids |-> "none"]
    /\ cur = [i \in Ids |-> NoMsg]
    /\ mailbox = [i \in Ids |-> <<>>]
    /\ sendTasks = {}
    /\ observer = {}
    /\ rtp_senders = [i \in Ids |-> {}]
    /\ events = <<>>
    /\ config = Config_new(<<"stun:a", "turn:b">>)
    /\ pid = "pid1"
    /\ snapshot = [i \in Ids |-> NoSnapshot]
    /\ sentTo = <<>>
    /\ nextSeq = 1
    /\ iceCount = 0
    /\ candidates = 0
    /\ closeOk = {}
    /\ atClose = [i \in Ids |-> {}]
    /\ pendingAtClose = [i \in Ids |-> {}]
    /\ dequeued = [i \in Ids |-> <<>>]
    /\ builds = {Built("new_registry", 1, 0, 2), Built("new_api", 1, 2, 3)}

NextActor ==
    \/ \E t \in Terms : peer_connection_exists(t)
    \/ \E a \in Terms : new(a)
    \/ \E t \in Terms : close(t)
    \/ \E t \in Terms, p \in Payloads : add_ice_candidate(t, p)
    \/ \E t \in Terms, tr \in Terms : add_track(t, tr)
    \/ \E t \in Terms, p \in Payloads : set_local_description(t, p)
    \/ \E t \in Terms, p \in Payloads : set_remote_description(t, p)
    \/ \E t \in Terms : create_offer(t)
    \/ \E i \in Ids : ActorStart(i)
    \/ \E i \in Ids : ActorConfigure(i)
    \/ \E i \in Ids : ActorBuilt(i)
    \/ \E i \in Ids : ActorRegister(i)
    \/ \E i \in Ids : ActorInstall(i)
    \/ \E i \in Ids : ActorRecv(i)
    \/ \E i \in Ids : ActorExec(i)
    \/ \E i \in Ids : ActorClosed(i)
    \/ \E t \in sendTasks : SenderSend(t)
    \/ \E i \in Ids : IceCandidateCallback(i)

SpecActor == InitActor /\ [][NextActor]_vars

\* The registry's tables and the life of the connections made from them, with no
\* command sent: the constructors, the exists queries, new, close and the steps of
\* the actor tasks that need no Msg.
NextRegistry ==
    \/ new_media_engine
    \/ \E m \in Terms : new_registry(m)
    \/ \E m \in Terms, g \in Terms : new_api(m, g)
    \/ \E t \in Terms : media_engine_exists(t)
    \/ \E t \in Terms : registry_exists(t)
    \/ \E t \in Terms : peer_connection_exists(t)
    \/ new_track_local_static_sample
    \/ \E a \in Terms : new(a)
    \/ \E t \in Terms : close(t)
    \/ \E i \in Ids : ActorStart(i)
    \/ \E i \in Ids : ActorConfigure(i)
    \/ \E i \in Ids : ActorBuilt(i)
    \/ \E i \in Ids : ActorRegister(i)
    \/ \E i \in Ids : ActorInstall(i)
    \/ \E i \in Ids : ActorRecv(i)
    \/ \E i \in Ids : ActorClosed(i)

SpecRegistry == Init /\ [][NextRegistry]_vars

\* A Ready connection whose actor is inside an engine call that has not returned,
\* with MailboxCapacity - 1 get_stats commands accepted and buffered behind it: the
\* commands accepted so far are numbered below 0, the ones of the run from 1.
InitMailbox ==
    /\ media_engines = {}
    /\ registries = {}
    /\ apis = {3}
    /\ peer_connections = {5}
    /\ tracks = {4}
    /\ poisoned = FALSE
    /\ guard = 0
    /\ nextId = 6
    /\ pc = [i \in Ids |-> IF i = 5 THEN "exec" ELSE "none"]
    /\ cur = [i \in Ids |-> IF i = 5 THEN Msg("GetStats", -MailboxCapacity, 0) ELSE NoMsg]
    /\ mailbox = [i \in Ids |->
                    IF i = 5 THEN [k \in 1..(MailboxCapacity - 1) |->
                                      Msg("GetStats", k - MailboxCapacity, 0)]
                    ELSE <<>>]
    /\ sendTasks = {}
    /\ observer = {5}
    /\ rtp_senders = [i \in Ids |-> {}]
    /\ events = <<Event("peer_connection_ready", 5, 0, "", 0)>>
    /\ config = Config_new(<<"stun:a", "turn:b">>)
    /\ pid = "pid1"
    /\ snapshot = [i \in Ids |->
                     IF i = 5 THEN [rtc_config |-> RTCConfigurationFrom(config), pid |-> pid]
                     ELSE NoSnapshot]
    /\ sentTo = <<pid>>
    /\ nextSeq = 1
    /\ iceCount = 0
    /\ candidates = 0
    /\ closeOk = {}
    /\ atClose = [i \in Ids |-> {}]
    /\ pendingAtClose = [i \in Ids |-> {}]
    /\ dequeued = [i \in Ids |-> IF i = 5 THEN <<-MailboxCapacity>> ELSE <<>>]
    /\ builds = {Built("new_registry", 1, 0, 2), Built("new_api", 1, 2, 3)}

\* The host calls and the send tasks while that engine call does not return.
NextMailbox ==
    \/ \E t \in Terms : get_stats(t)
    \/ \E t \in Terms : create_offer(t)
    \/ \E t \in Terms, p \in Payloads : add_ice_candidate(t, p)
    \/ \E t \in Terms, p \in Payloads : set_remote_description(t, p)
    \/ \E t \in Terms : close(t)
    \/ \E t \in sendTasks : SenderSend(t)

SpecMailbox == InitMailbox /\ [][NextMailbox]_vars

\* The registry's tables under every call that reads or writes them: the calls of
\* SpecRegistry with the command calls and their send tasks, the arms left out.
NextTables ==
    \/ NextRegistry
    \/ \E t \in Terms, p \in Payloads : add_ice_candidate(t, p)
    \/ \E t \in Terms, tr \in Terms : add_track(t, tr)
    \/ \E t \in Terms, p \in Payloads : set_local_description(t, p)
    \/ \E t \in Terms : create_offer(t)
    \/ \E t \in sendTasks : SenderSend(t)

SpecTables == Init /\ [][NextTables]_vars

\* A Ready connection with its observer installed and its actor at rx.recv(): the
\* state new, the build, the registration and the installation leave.
InitArms ==
    /\ media_engines = {}
    /\ registries = {}
    /\ apis = {3}
    /\ peer_connections = {5}
    /\ tracks = {4}
    /\ poisoned = FALSE
    /\ guard = 0
    /\ nextId = 6
    /\ pc = [i \in Ids |-> IF i = 5 THEN "recv" ELSE "none"]
    /\ cur = [i \in Ids |-> NoMsg]
    /\ mailbox = [i \in Ids |-> <<>>]
    /\ sendTasks = {}
    /\ observer = {5}
    /\ rtp_senders = [i \in Ids |-> {}]
    /\ events = <<Event("peer_connection_ready", 5, 0, "", 0)>>
    /\ config = Config_new(<<"stun:a", "turn:b">>)
    /\ pid = "pid1"
    /\ snapshot = [i \in Ids |->
                     IF i = 5 THEN [rtc_config |-> RTCConfigurationFrom(config), pid |-> pid]
                     ELSE NoSnapshot]
    /\ sentTo = <<pid>>
    /\ nextSeq = 1
    /\ iceCount = 0
    /\ candidates = 0
    /\ closeOk = {}
    /\ atClose = [i \in Ids |-> {}]
    /\ pendingAtClose = [i \in Ids |-> {}]
    /\ dequeued = [i \in Ids |-> <<>>]
    /\ builds = {Built("new_registry", 1, 0, 2), Built("new_api", 1, 2, 3)}

\* Every command call, the send tasks and the receive loop with all its arms.
NextArms ==
    \/ \E t \in Terms, p \in Payloads : add_ice_candidate(t, p)
    \/ \E t \in Terms, tr \in Terms : add_track(t, tr)
    \/ \E t \in Terms, p \in Payloads : set_local_description(t, p)
    \/ \E t \in Terms, p \in Payloads : set_remote_description(t, p)
    \/ \E t \in Terms : create_answer(t)
    \/ \E t \in Terms : create_data_channel(t)
    \/ \E t \in Terms : create_offer(t)
    \/ \E t \in Terms : current_local_description(t)
    \/ \E t \in Terms : current_remote_description(t)
    \/ \E t \in Terms : pending_local_description(t)
    \/ \E t \in Terms : pending_remote_description(t)
    \/ \E t \in Terms : local_description(t)
    \/ \E t \in Terms : remote_description(t)
    \/ \E t \in Terms : get_stats(t)
    \/ \E t \in Terms : ice_connection_state(t)
    \/ \E t \in Terms : ice_gathering_state(t)
    \/ \E t \in Terms : signaling_state(t)
    \/ \E t \in Terms : connection_state(t)
    \/ \E t \in sendTasks : SenderSend(t)
    \/ \E i \in Ids : ActorRecv(i)
    \/ \E i \in Ids : ActorExec(i)

SpecArms == InitArms /\ [][NextArms]_vars

\* init called by either process with any of the lists, and the setup chain run:
\* connections created, commanded and closed, with the configuration read back.
InitConfig ==
    /\ media_engines = {}
    /\ registries = {}
    /\ apis = {3}
    /\ peer_connections = {}
    /\ tracks = {4}
    /\ poisoned = FALSE
    /\ guard = 0
    /\ nextId = 5
    /\ pc = [i \in Ids |-> "none"]
    /\ cur = [i \in Ids |-> NoMsg]
    /\ mailbox = [i \in Ids |-> <<>>]
    /\ sendTasks = {}
    /\ observer = {}
    /\ rtp_senders = [i \in Ids |-> {}]
    /\ events = <<>>
    /\ config \in {Config_new(s) : s \in IceServerLists}
    /\ pid \in Pids
    /\ snapshot = [i \in Ids |-> NoSnapshot]
    /\ sentTo = <<>>
    /\ nextSeq = 1
    /\ iceCount = 0
    /\ candidates = 0
    /\ closeOk = {}
    /\ atClose = [i \in Ids |-> {}]
    /\ pendingAtClose = [i \in Ids |-> {}]
    /\ dequeued = [i \in Ids |-> <<>>]
    /\ builds = {Built("new_registry", 1, 0, 2), Built("new_api", 1, 2, 3)}

NextConfig ==
    \/ get_config
    \/ \E a \in Terms : new(a)
    \/ \E t \in Terms : close(t)
    \/ \E t \in Terms, tr \in Terms : add_track(t, tr)
    \/ \E t \in Terms : create_offer(t)
    \/ \E i \in Ids : ActorStart(i)
    \/ \E i \in Ids : ActorConfigure(i)
    \/ \E i \in Ids : ActorBuilt(i)
    \/ \E i \in Ids : ActorRegister(i)
    \/ \E i \in Ids : ActorInstall(i)
    \/ \E i \in Ids : ActorRecv(i)
    \/ \E i \in Ids : ActorExec(i)
    \/ \E i \in Ids : ActorClosed(i)
    \/ \E t \in sendTasks : SenderSend(t)
    \/ \E i \in Ids : IceCandidateCallback(i)

SpecConfig == InitConfig /\ [][NextConfig]_vars

\* ------------------------------------------------------------- properties

Positions(tag, i) == {k \in 1..Len(events) : events[k].tag = tag /\ events[k].id = i}
Count(tag, i) == Cardinality(Positions(tag, i))

\* The places in the log of the outcome of command n of connection i.
OutcomePositions(i, n) == {k \in 1..Len(events) : events[k].id = i /\ events[k].seq = n}

\* The strings a host can pass as an id.
StringTerms == Terms \ {BadTerm}

InvalidSessionDescriptions == {p \in Payloads : ~ParsesAsSessionDescription(p)}
InvalidIceCandidates == {p \in Payloads : ~ParsesAsIceCandidateInit(p)}

\* What the command-issuing calls return for the connection id t.
CommandResults(t) ==
    {add_ice_candidate_result(t, p) : p \in Payloads}
        \cup {add_track_result(t, tr) : tr \in Terms}
        \cup {set_local_description_result(t, p) : p \in Payloads}
        \cup {set_remote_description_result(t, p) : p \in Payloads}
        \cup {plain_command_result(t)}

\* C1: the commands of one connection whose calls returned ok in the order
\* 1, 2, ..., N lie in its mailbox in that order and their outcome events are
\* emitted in that order, however the send tasks interleave.
C1_SubmissionOrderPreserved ==
    \A i \in Ids :
        /\ \A j, k \in 1..Len(mailbox[i]) :
               j < k => mailbox[i][j].seq < mailbox[i][k].seq
        /\ \A j, k \in 1..Len(events) :
               (j < k /\ events[j].id = i /\ events[k].id = i
                      /\ events[j].seq > 0 /\ events[k].seq > 0)
                   => events[j].seq < events[k].seq

Answered(i) == Count("peer_connection_ready", i) + Count("peer_connection_error", i)
SetupOver(i) == pc[i] \notin {"none", "start", "building", "built"}

\* C2: a connection id that new returned has at most one of peer_connection_ready
\* and peer_connection_error in the log, and exactly one once its task is past the
\* registration or has ended.
C2_ReadyXorError ==
    \A i \in Ids : Answered(i) <= 1 /\ (SetupOver(i) => Answered(i) = 1)

\* C3: peer_connection_closed of an id is emitted at most once and only after its
\* peer_connection_ready, and a task that has ended after peer_connection_ready
\* has emitted it.
C3_ClosedOnceAfterReady ==
    \A i \in Ids :
        /\ Count("peer_connection_closed", i) <= 1
        /\ \A k \in Positions("peer_connection_closed", i) :
               \E j \in Positions("peer_connection_ready", i) : j < k
        /\ (Count("peer_connection_ready", i) = 1 /\ pc[i] \in Ended)
               => Count("peer_connection_closed", i) = 1

\* C4: the task of an id whose close returned ok ends having emitted exactly one
\* peer_connection_closed, and a step in which close returns ok changes nothing
\* but the registry's sender entry.
C4_CloseEndsInClosed ==
    /\ [](\A i \in closeOk : pc[i] \in Ended => Count("peer_connection_closed", i) = 1)
    /\ [][\A t \in Terms : (close_result(t) = "ok" /\ close(t)) =>
             /\ peer_connections' = peer_connections \ {t}
             /\ UNCHANGED <<pc, cur, mailbox, sendTasks, observer, rtp_senders, events>>]_vars

\* C5: whatever the engine answers to a command, the actor is back in its
\* receive loop after it.
C5_EngineFailureKeepsActor ==
    [][\A i \in Ids : pc[i] = "exec" => pc'[i] \in {"exec", "recv"}]_vars

\* C6: every command-issuing call given a string id that was never registered,
\* or whose close returned ok, returns not_found.
C6_UnknownOrClosedIsNotFound ==
    \A t \in StringTerms :
        (t \notin Ids \/ t \in closeOk \/ (t \in Ids /\ pc[t] = "none"))
            => CommandResults(t) = {"not_found"}

\* C7: new given a string that is not the id of a registered Api returns not_found.
C7_UnknownApiIsNotFound ==
    \A a \in StringTerms : a \notin apis => new_result(a) = "not_found"

\* C8 as stated: set_remote_description, set_local_description and
\* add_ice_candidate given a payload that does not parse return invalid_json.
C8_InvalidPayloadIsInvalidJson ==
    \A t \in StringTerms :
        /\ \A p \in InvalidSessionDescriptions :
               /\ set_remote_description_result(t, p) = "invalid_json"
               /\ set_local_description_result(t, p) = "invalid_json"
        /\ \A p \in InvalidIceCandidates :
               add_ice_candidate_result(t, p) = "invalid_json"

\* What a call that is given the string id t and a payload that does not parse returns.
RejectedAs(t) ==
    IF poisoned THEN "lock_fail"
    ELSE IF t \in peer_connections THEN "invalid_json"
    ELSE "not_found"

\* C8 amended: given a string id and a payload that does not parse, the three
\* calls return invalid_json when the id is registered and the guard is
\* acquired, not_found when the id is not registered and lock_fail when the
\* guard is poisoned; in each case no send task is spawned, nothing is enqueued
\* and no event is emitted.
C8_InvalidPayloadRejected ==
    /\ [](\A t \in StringTerms :
            /\ \A p \in InvalidSessionDescriptions :
                   /\ set_remote_description_result(t, p) = RejectedAs(t)
                   /\ set_local_description_result(t, p) = RejectedAs(t)
            /\ \A p \in InvalidIceCandidates :
                   add_ice_candidate_result(t, p) = RejectedAs(t))
    /\ [][\/ UNCHANGED <<sendTasks, mailbox, events, nextSeq>>
          \/ \A t \in StringTerms :
                /\ \A p \in InvalidSessionDescriptions :
                       ~set_remote_description(t, p) /\ ~set_local_description(t, p)
                /\ \A p \in InvalidIceCandidates : ~add_ice_candidate(t, p)]_vars

\* A registered connection whose set_remote_description is given "not json".
C8_Witness ==
    \E t \in peer_connections :
        /\ ~poisoned
        /\ set_remote_description_result(t, "not json") = "invalid_json"

\* C9: close of an id whose close returned ok before returns not_found, and no
\* id has more than one peer_connection_closed.
C9_SecondCloseIsNotFound ==
    /\ \A t \in closeOk : close_result(t) = "not_found"
    /\ \A i \in Ids : Count("peer_connection_closed", i) <= 1

\* C10: when peer_connection_closed of an id is emitted, the outcome of every
\* command that lay in its mailbox when close removed the sender is earlier in
\* the log.
C10_DrainedBeforeClosed ==
    \A i \in Ids : \A k \in Positions("peer_connection_closed", i) :
        \A n \in atClose[i] : \E j \in OutcomePositions(i, n) : j < k

\* A connection closed with two commands in its mailbox has emitted
\* peer_connection_closed.
C10_Witness ==
    \E i \in closeOk :
        /\ Cardinality(atClose[i]) = 2
        /\ Count("peer_connection_closed", i) = 1

\* The commands of connection i that rx.recv() returned.
Dequeued(i) == {dequeued[i][k] : k \in 1..Len(dequeued[i])}

\* The commands of connection i whose arm is no longer running.
Handled(i) == Dequeued(i) \ (IF pc[i] = "exec" THEN {cur[i].seq} ELSE {})

\* C11: every command the actor dequeued and is done with has exactly one event
\* in the log, neither none nor two.
C11_OneEventPerCommand ==
    \A i \in Ids : \A n \in Handled(i) : Cardinality(OutcomePositions(i, n)) = 1

\* C12: for two commands of one connection, the event of the one dequeued later
\* is in the log only after the event of the one dequeued earlier.
C12_EventsInDequeueOrder ==
    \A i \in Ids : \A j, k \in 1..Len(dequeued[i]) :
        j < k => \A b \in OutcomePositions(i, dequeued[i][k]) :
                     \E a \in OutcomePositions(i, dequeued[i][j]) : a < b

\* A connection that dequeued command 2 before command 1 and has answered both.
C12_Witness ==
    \E i \in Ids :
        /\ dequeued[i] = <<2, 1>>
        /\ OutcomePositions(i, 1) # {}
        /\ OutcomePositions(i, 2) # {}

\* C13: the task of an id whose build failed has sent peer_connection_error and
\* ended; in every state after it the id is not in the peer-connection table,
\* peer_connection_exists answers false for it and every command addressed to
\* it returns not_found.
C13_FailedBuildNeverRegistered ==
    \A i \in Ids :
        /\ pc[i] = "failed" <=> Count("peer_connection_error", i) = 1
        /\ pc[i] = "failed" =>
               /\ i \notin peer_connections
               /\ exists_result(peer_connections, i) = "false"
               /\ CommandResults(i) = {"not_found"}

\* The new_api and the new_registry calls that returned an id.
ApisBuilt == {b \in builds : b.op = "new_api"}
RegistriesBuilt == {b \in builds : b.op = "new_registry"}

\* C14: after new_api(m, g) returned the id of an Api, m and g are out of their
\* tables and the Api is in its table, media_engine_exists(m) and
\* registry_exists(g) answer false, and a new_api given m or g returns not_found.
C14_NewApiConsumesBoth ==
    \A b \in ApisBuilt :
        /\ b.m \notin media_engines /\ b.g \notin registries /\ b.id \in apis
        /\ exists_result(media_engines, b.m) = "false"
        /\ exists_result(registries, b.g) = "false"
        /\ \A x \in StringTerms :
               /\ new_api_result(b.m, x) = "not_found"
               /\ new_api_result(x, b.g) = "not_found"

\* C15: no MediaEngine has two registries built from it, and after new_registry(m)
\* returned an id, new_registry(m) does not return ok whatever the engine answers.
C15_NewRegistryAtMostOnce ==
    /\ \A b, c \in RegistriesBuilt : b.m = c.m => b = c
    /\ \A b \in RegistriesBuilt :
           \A interceptors_ok \in BOOLEAN : new_registry_result(b.m, interceptors_ok) # "ok"

\* C16: a new_registry(m) that returns an id leaves the MediaEngine table as it
\* was, with m in it and media_engine_exists(m) answering true, and adds the one
\* fresh id to the InterceptorRegistry table; an id leaves the MediaEngine table
\* only in a step of new_api.
C16_NewRegistryKeepsMediaEngine ==
    [][/\ registries' = registries
          \/ \A m \in StringTerms : new_registry(m) =>
                 /\ media_engines' = media_engines
                 /\ m \in media_engines'
                 /\ exists_result(media_engines, m)' = "true"
                 /\ nextId \notin registries
                 /\ registries' = registries \cup {nextId}
       /\ media_engines \subseteq media_engines'
          \/ \E m \in StringTerms, g \in Terms : new_api(m, g)]_vars

\* A MediaEngine that is still registered after a registry was built from it.
C16_Witness ==
    \E b \in RegistriesBuilt : b.m \in media_engines /\ b.id \in registries

\* C17: no step takes an id out of the Api table; a new(a) that returns an id
\* leaves the Api table as it was, returns an id no table and no task has, and
\* starts the task of that id and of no other; close leaves the Api table as it was.
C17_NewKeepsApi ==
    [][/\ apis \subseteq apis'
       /\ pc' = pc
          \/ \A a \in StringTerms : new(a) =>
                 /\ a \in apis /\ apis' = apis
                 /\ nextId \notin media_engines \cup registries \cup apis \cup tracks
                                      \cup peer_connections
                 /\ pc[nextId] = "none" /\ pc'[nextId] = "start"
                 /\ \A i \in Ids \ {nextId} : pc'[i] = pc[i]
       /\ peer_connections' = peer_connections
          \/ \A t \in StringTerms : close(t) => apis' = apis]_vars

\* Two connections made from one Api, one of them closed, the Api still registered.
C17_Witness ==
    /\ Cardinality(apis) = 1
    /\ Cardinality({i \in Ids : pc[i] # "none"}) = 2
    /\ closeOk # {}

\* What the host-facing calls return when they are given the term t.
HostResults(t) ==
    CommandResults(t)
        \cup {new_result(t), close_result(t), new_track_local_static_sample_result}
        \cup {exists_result(media_engines, t), exists_result(registries, t),
              exists_result(peer_connections, t)}
        \cup {new_media_engine_result(ok) : ok \in BOOLEAN}
        \cup {new_registry_result(t, ok) : ok \in BOOLEAN}
        \cup {new_api_result(t, g) : g \in Terms}

\* C18: while the guard is poisoned every host-facing call returns lock_fail,
\* new included, and no actor task ends by a fault on the guard.
C18_PoisonedGuardIsLockFail ==
    /\ poisoned => \A t \in Terms : HostResults(t) = {"lock_fail"}
    /\ \A i \in Ids : pc[i] # "lock_panic"

\* The states of a connection id in which the claim lets it accept no command:
\* Creating or ConnectionFailed (no peer_connection_ready yet), Closing or
\* Closed (its close returned ok).
NotReady(i) ==
    /\ pc[i] # "none"
    /\ Count("peer_connection_ready", i) = 0 \/ i \in closeOk

\* C19: every command addressed to a connection id that is not Ready returns
\* not_found.
C19_CommandsOnlyWhenReady ==
    \A i \in Ids : NotReady(i) => CommandResults(i) = {"not_found"}

InEngineCall(i) == pc[i] \in {"building", "installing", "exec"}

\* C21: no transport-engine operation is awaited while the registry guard is
\* held: a task that is in an engine call does not hold the guard, so whoever
\* holds the guard is in none and host calls never wait behind an engine call.
C21_NoEngineCallUnderGuard ==
    \A i \in Ids : InEngineCall(i) => guard # i

\* The connection build is being awaited and the guard is free.
C21_Witness ==
    \E i \in Ids : pc[i] = "building" /\ guard = 0 /\ ~poisoned

\* The commands of connection i that rx.recv() has handed to an arm and whose
\* outcome is not in the log: the engine operations begun and not completed.
InFlight(i) == {n \in Dequeued(i) : OutcomePositions(i, n) = {}}

\* C22: the native connection handle is used by its actor task alone and for
\* one command at a time: at most one engine operation of a connection is in
\* flight, it is the one the actor is executing, and none is begun before the
\* actor has entered its receive loop.
C22_OneEngineOperationAtATime ==
    \A i \in Ids :
        /\ Cardinality(InFlight(i)) <= 1
        /\ pc[i] = "exec" => InFlight(i) = {cur[i].seq}
        /\ InFlight(i) # {} => pc[i] \in {"exec", "engine_panic"}
        /\ pc[i] \in {"none", "start", "configuring", "building", "built", "installing"}
              => Dequeued(i) = {}

\* One command is being executed while a second one waits in the mailbox.
C22_Witness ==
    \E i \in Ids : pc[i] = "exec" /\ InFlight(i) = {cur[i].seq} /\ mailbox[i] # <<>>

InProgress(n) ==
    \/ \E t \in sendTasks : t.msg.seq = n
    \/ \E i \in Ids : \E k \in 1..Len(mailbox[i]) : mailbox[i][k].seq = n
    \/ \E i \in Ids : pc[i] = "exec" /\ cur[i].seq = n

\* Command n has its outcome event in the log.
HasOutcome(n) == \E k \in 1..Len(events) : events[k].seq = n

\* C24: every command whose host call returned ok produces its outcome event,
\* a close issued afterwards included: as long as the outcome is not in the log
\* the command is still on its way to it, it is never lost.
C24_AcceptedCommandHasOutcome ==
    \A n \in 1..(nextSeq - 1) : HasOutcome(n) \/ InProgress(n)

\* The ids gen_uuid has handed to a connection, registered or not.
ConnectionIds == {i \in Ids : pc[i] # "none"}

\* The kinds of id, each with the ids of that kind that are in use.
Kinds == <<media_engines, registries, apis, tracks, ConnectionIds>>

\* The ids of every kind but k.
OtherKinds(k) == UNION {Kinds[j] : j \in (1..Len(Kinds)) \ {k}}

\* C25: ids are unique over the registry's lifetime and lookups are
\* kind-checked: every id in use was handed out once (no id is of two kinds and
\* none is ahead of gen_uuid), an entry added to a table is under the fresh id
\* of that step (a connection's under the id new gave its task, once), so no
\* entry is overwritten and no removed id comes back, and a call given an id of
\* another kind answers as it does for an id that was never handed out.
C25_IdsUniqueLookupsKindChecked ==
    /\ [](/\ \A k \in 1..Len(Kinds) : \A x \in Kinds[k] :
                x < nextId /\ x \notin OtherKinds(k)
          /\ peer_connections \subseteq ConnectionIds \ closeOk
          /\ \A x \in OtherKinds(1) :
                /\ exists_result(media_engines, x) = exists_result(media_engines, UnknownId)
                /\ \A ok \in BOOLEAN :
                      new_registry_result(x, ok) = new_registry_result(UnknownId, ok)
                /\ \A g \in Terms : new_api_result(x, g) = new_api_result(UnknownId, g)
          /\ \A x \in OtherKinds(2) :
                /\ exists_result(registries, x) = exists_result(registries, UnknownId)
                /\ \A m \in Terms : new_api_result(m, x) = new_api_result(m, UnknownId)
          /\ \A x \in OtherKinds(3) : new_result(x) = new_result(UnknownId)
          /\ \A x \in OtherKinds(4) : \A t \in Terms :
                add_track_result(t, x) = add_track_result(t, UnknownId)
          /\ \A x \in OtherKinds(5) :
                /\ exists_result(peer_connections, x)
                      = exists_result(peer_connections, UnknownId)
                /\ close_result(x) = close_result(UnknownId)
                /\ CommandResults(x) = CommandResults(UnknownId))
    /\ [][/\ \A x \in (media_engines' \cup registries' \cup apis' \cup tracks')
                        \ (media_engines \cup registries \cup apis \cup tracks) :
                x = nextId /\ nextId' = nextId + 1
          /\ \A x \in ConnectionIds' \ ConnectionIds : x = nextId /\ nextId' = nextId + 1
          /\ \A x \in peer_connections' \ peer_connections :
                pc[x] = "built" /\ Count("peer_connection_ready", x) = 0]_vars

\* A MediaEngine and a Registry were consumed by new_api, a connection made from
\* the Api was closed, and new given the id of a MediaEngine answers not_found.
C25_Witness ==
    /\ apis # {} /\ closeOk # {} /\ ApisBuilt # {}
    /\ \E x \in media_engines : new_result(x) = "not_found"

\* C26: a new_api(m, g) that returns not_found leaves the registry as it was:
\* with m registered and g not, m is still registered after the call.
C26_FailedNewApiChangesNothing ==
    [][\A m \in StringTerms, g \in StringTerms :
          new_api_result(m, g) = "not_found" /\ new_api(m, g)
              => UNCHANGED registryVars]_vars

\* C27: peer_connection_closed is the last event of its connection: nothing
\* carrying the id follows it in the log, neither the outcome of a command nor
\* an ice_candidate from the ICE observer.
C27_ClosedIsTerminal ==
    \A i \in Ids : \A k \in Positions("peer_connection_closed", i) :
        \A j \in (k + 1)..Len(events) : events[j].id # i

\* C28: a command accepted before close(id) whose send task had not enqueued
\* it when close dropped the registry's Sender is still delivered and processed:
\* the actor has not seen the end of the stream, and peer_connection_closed is
\* not in the log, while a send task of the connection is pending, and the
\* outcome of each such command precedes peer_connection_closed.
C28_PendingSendsBeforeClosed ==
    \A i \in Ids :
        /\ pc[i] \in {"closing", "done"} \/ Count("peer_connection_closed", i) > 0
              => \A t \in sendTasks : t.conn # i
        /\ \A k \in Positions("peer_connection_closed", i) :
              \A n \in pendingAtClose[i] : \E j \in OutcomePositions(i, n) : j < k

\* A connection was closed with a send task pending, and peer_connection_closed
\* has been sent.
C28_Witness ==
    \E i \in Ids : pendingAtClose[i] # {} /\ Count("peer_connection_closed", i) = 1

\* What set_remote_description, set_local_description and add_ice_candidate
\* return for the id t and the payload p.
PayloadCallResults(t, p) ==
    {set_remote_description_result(t, p), set_local_description_result(t, p),
     add_ice_candidate_result(t, p)}

C30_GuardNeverPoisoned ==
    /\ ~poisoned
    /\ \E t \in StringTerms : plain_command_result(t) # "lock_fail"

\* C31: every Sender entry of the peer-connection table belongs to an actor task
\* that is alive and in, or on its way into, its receive loop: no id is
\* registered, answered true by peer_connection_exists and accepted by the
\* command calls, while its actor has ended.
C31_RegisteredMeansActorAlive ==
    \A i \in peer_connections : pc[i] \in {"installing", "recv", "exec"}

\* A step of a command-issuing call or of an exists query, whatever it returns.
CommandOrQueryStep ==
    \/ \E t \in Terms, p \in Payloads :
          add_ice_candidate(t, p) \/ set_local_description(t, p)
              \/ set_remote_description(t, p)
    \/ \E t \in Terms, tr \in Terms : add_track(t, tr)
    \/ \E t \in Terms, k \in PlainKinds : plain_command(t, k)
    \/ \E t \in Terms :
          media_engine_exists(t) \/ registry_exists(t) \/ peer_connection_exists(t)

\* A step of one of the calls the claim lets add or remove an entry.
ConstructorOrCloseStep ==
    \/ new_media_engine
    \/ \E m \in Terms : new_registry(m)
    \/ \E m \in Terms, g \in Terms : new_api(m, g)
    \/ \E i \in Ids : ActorRegister(i)
    \/ \E t \in Terms : close(t)

IceCandidatePositions == {k \in 1..Len(events) : events[k].tag = "ice_candidate"}

SenderIdsSent(i) == {events[k].sender : k \in Positions("rtp_sender", i)}

\* C34: every AddTrack the engine accepts gives exactly one rtp_sender event
\* with a freshly generated sender id and one entry of the actor's rtp_senders
\* table under that id: the keys of the table are the sender ids sent, pairwise
\* distinct and none of them an id the host was given, one per AddTrack command
\* answered, and the table only grows.
C34_OneFreshSenderPerAddTrack ==
    /\ [](\A i \in Ids :
            /\ rtp_senders[i] = SenderIdsSent(i)
            /\ Cardinality(rtp_senders[i]) = Count("rtp_sender", i)
            /\ rtp_senders[i] \cap (1..(nextId - 1)) = {}
            /\ \A j \in Ids \ {i} : rtp_senders[i] \cap rtp_senders[j] = {}
            /\ \A k \in Positions("rtp_sender", i) :
                  /\ events[k].seq \in Handled(i)
                  /\ OutcomePositions(i, events[k].seq) = {k})
    /\ [][\A i \in Ids : rtp_senders[i] \subseteq rtp_senders'[i]]_vars

\* Two AddTrack commands of one connection were accepted by the engine.
C34_Witness ==
    \E i \in Ids : Cardinality(rtp_senders[i]) = 2 /\ Count("rtp_sender", i) = 2

\* C35: add_track given a registered connection id and a track id that is not
\* registered returns invalid_track, and given a connection id that is not
\* registered it returns not_found whatever the track id; the step of such a
\* call spawns no send task, enqueues nothing and sends no event.
C35_AddTrackErrors ==
    /\ [](\A t \in StringTerms : \A tr \in StringTerms :
            /\ t \in peer_connections /\ tr \notin tracks
                  => add_track_result(t, tr) = "invalid_track"
            /\ t \notin peer_connections => add_track_result(t, tr) = "not_found")
    /\ [][\A t \in StringTerms : \A tr \in StringTerms :
            add_track_result(t, tr) # "ok" /\ add_track(t, tr)
                => UNCHANGED <<sendTasks, mailbox, events, nextSeq>>]_vars

\* The six description queries, each with the tag of its Description event.
QueryTags ==
    {<<"GetCurrentLocalDescription", "current_local_description">>,
     <<"GetCurrentRemoteDescription", "current_remote_description">>,
     <<"GetPendingLocalDescription", "pending_local_description">>,
     <<"GetPendingRemoteDescription", "pending_remote_description">>,
     <<"GetLocalDescription", "local_description">>,
     <<"GetRemoteDescription", "remote_description">>}

\* The actor of connection i ends the arm of the Msg it is executing in this step.
ArmEnds(i) == pc[i] = "exec" /\ pc'[i] # "exec"

\* C36: each of the six description queries the actor processes yields exactly
\* one event, tagged with its own query kind and never an error event; its
\* payload is nil exactly when the engine holds no such description and the
\* serialized description otherwise.
C36_DescriptionQueriesAnswered ==
    /\ [](\A q \in QueryTags : \A r \in EngineResults(q[1]) : \A i \in Ids :
            /\ Outcome(i, Msg(q[1], 1, 0), r).tag = q[2]
            /\ Outcome(i, Msg(q[1], 1, 0), r).payload = "nil" <=> r = "None"
            /\ Outcome(i, Msg(q[1], 1, 0), r).payload = "json" <=> r = "Some")
    /\ [][\A i \in Ids : ArmEnds(i) /\ cur[i].kind \in DescriptionKinds
            => /\ Len(events') = Len(events) + 1
               /\ SubSeq(events', 1, Len(events)) = events
               /\ LET e == events'[Len(events')] IN
                    /\ <<cur[i].kind, e.tag>> \in QueryTags
                    /\ e.id = i /\ e.seq = cur[i].seq
                    /\ e.payload \in {"nil", "json"}]_vars

\* One description query was answered with nil and another with a description.
C36_Witness ==
    \E j, k \in 1..Len(events) :
        /\ events[j].tag \in {q[2] : q \in QueryTags} /\ events[j].payload = "nil"
        /\ events[k].tag \in {q[2] : q \in QueryTags} /\ events[k].payload = "json"

\* The command table: command kind, tag and payload of the event for the
\* engine's Ok, tag of the event for the engine's Err.
CommandTable ==
    {<<"AddIceCandidate", "ok", "add_ice_candidate", "candidate_error">>,
     <<"CreateOffer", "offer", "json", "offer_error">>,
     <<"CreateAnswer", "answer", "json", "answer_error">>,
     <<"CreateDataChannel", "data_channel_created", "", "offer_error">>,
     <<"SetLocalDescription", "ok", "set_local_description",
       "invalid_local_description">>,
     <<"SetRemoteDescription", "ok", "set_remote_description",
       "invalid_remote_description">>}

\* The tag and payload pairs the table allows for a command of the kind k.
TableEvents(k) ==
    UNION {{<<c[2], c[3]>>, <<c[4], "err">>} : c \in {x \in CommandTable : x[1] = k}}

\* C37: the event for a processed command is the one the command table gives
\* for its kind and the engine's result, and it carries the id of the
\* connection whose actor processed it.
C37_EventByKindAndResult ==
    /\ [](\A c \in CommandTable : \A i \in Ids :
            LET m == Msg(c[1], 1, 0) IN
            /\ EngineResults(c[1]) = {"Ok", "Err"}
            /\ Outcome(i, m, "Ok").tag = c[2] /\ Outcome(i, m, "Ok").payload = c[3]
            /\ Outcome(i, m, "Err").tag = c[4] /\ Outcome(i, m, "Err").payload = "err"
            /\ Outcome(i, m, "Ok").id = i /\ Outcome(i, m, "Err").id = i)
    /\ [][\A i \in Ids :
            ArmEnds(i) /\ cur[i].kind \in {c[1] : c \in CommandTable}
            => /\ Len(events') = Len(events) + 1
               /\ SubSeq(events', 1, Len(events)) = events
               /\ LET e == events'[Len(events')] IN
                    /\ <<e.tag, e.payload>> \in TableEvents(cur[i].kind)
                    /\ e.id = i /\ e.seq = cur[i].seq]_vars

\* A data channel request the engine rejected was answered with offer_error,
\* and another command was answered with its success event.
C37_Witness ==
    \E j, k \in 1..Len(events) :
        /\ events[j].tag = "offer_error" /\ events[j].id = 5
        /\ \E n \in 1..Len(dequeued[5]) : dequeued[5][n] = events[j].seq
        /\ events[k].tag \in {"ok", "offer", "answer", "data_channel_created"}

\* The engine's ICE connection states, each with the abstract value of its name.
IceConnectionNames ==
    {<<"RTCIceConnectionState::Checking", "checking">>,
     <<"RTCIceConnectionState::Closed", "closed">>,
     <<"RTCIceConnectionState::Completed", "completed">>,
     <<"RTCIceConnectionState::Connected", "connected">>,
     <<"RTCIceConnectionState::Disconnected", "disconnected">>,
     <<"RTCIceConnectionState::Failed", "failed">>,
     <<"RTCIceConnectionState::New", "new">>,
     <<"RTCIceConnectionState::Unspecified", "unspecified">>}

\* The engine's ICE gathering states, each with the abstract value of its name.
IceGatheringNames ==
    {<<"RTCIceGatheringState::Complete", "complete">>,
     <<"RTCIceGatheringState::Gathering", "gathering">>,
     <<"RTCIceGatheringState::New", "new">>,
     <<"RTCIceGatheringState::Unspecified", "unspecified">>}

\* The engine's signaling states, each with the abstract value of its name.
SignalingNames ==
    {<<"RTCSignalingState::Closed", "closed">>,
     <<"RTCSignalingState::HaveLocalOffer", "have_local_offer">>,
     <<"RTCSignalingState::HaveLocalPranswer", "have_local_pranswer">>,
     <<"RTCSignalingState::HaveRemoteOffer", "have_remote_offer">>,
     <<"RTCSignalingState::HaveRemotePranswer", "have_remote_pranswer">>,
     <<"RTCSignalingState::Stable", "stable">>,
     <<"RTCSignalingState::Unspecified", "unspecified">>}

\* The engine's connection states, each with the abstract value of its name.
ConnectionNames ==
    {<<"RTCPeerConnectionState::Closed", "closed">>,
     <<"RTCPeerConnectionState::Connected", "connected">>,
     <<"RTCPeerConnectionState::Connecting", "connecting">>,
     <<"RTCPeerConnectionState::Disconnected", "disconnected">>,
     <<"RTCPeerConnectionState::Failed", "failed">>,
     <<"RTCPeerConnectionState::New", "new">>,
     <<"RTCPeerConnectionState::Unspecified", "unspecified">>}

\* The mapping f sends every value of a table's left column to the value
\* beside it, and no two of them to the same value.
TotalOneToOne(S, names, image) ==
    /\ S = {p[1] : p \in names}
    /\ \A p \in names : image[p[1]] = p[2]
    /\ \A x, y \in S : image[x] = image[y] => x = y
    /\ Cardinality({image[x] : x \in S}) = Cardinality(S)

\* The four state queries, each with the tag of its event and the abstract
\* values its mapping may give.
StateQueries ==
    {<<"IceConnectionState", "ice_connection_state", {p[2] : p \in IceConnectionNames}>>,
     <<"IceGatheringState", "ice_gathering_state", {p[2] : p \in IceGatheringNames}>>,
     <<"SignalingState", "signaling_state", {p[2] : p \in SignalingNames}>>,
     <<"ConnectionState", "connection_state", {p[2] : p \in ConnectionNames}>>}

\* C39: each of the four state mappings is total and one-to-one from the
\* engine's state values to the abstract values of the same name, and a state
\* query is answered with the abstract value of the state the engine reported.
C39_StateMappingsTotalOneToOne ==
    /\ [](/\ TotalOneToOne(RTCIceConnectionStates, IceConnectionNames,
                           [x \in RTCIceConnectionStates |-> IceConnectionStateFrom(x)])
          /\ TotalOneToOne(RTCIceGatheringStates, IceGatheringNames,
                           [x \in RTCIceGatheringStates |-> IceGatheringStateFrom(x)])
          /\ TotalOneToOne(RTCSignalingStates, SignalingNames,
                           [x \in RTCSignalingStates |-> SignalingStateFrom(x)])
          /\ TotalOneToOne(RTCPeerConnectionStates, ConnectionNames,
                           [x \in RTCPeerConnectionStates |-> ConnectionStateFrom(x)]))
    /\ [][\A i \in Ids : \A q \in StateQueries :
            ArmEnds(i) /\ cur[i].kind = q[1]
            => /\ Len(events') = Len(events) + 1
               /\ LET e == events'[Len(events')] IN
                    /\ e.tag = q[2] /\ e.id = i /\ e.seq = cur[i].seq
                    /\ e.payload \in q[3]]_vars

\* Two gathering state queries were answered with different abstract values.
C39_Witness ==
    \E j, k \in 1..Len(events) :
        /\ events[j].tag = "ice_gathering_state" /\ events[j].payload = "complete"
        /\ events[k].tag = "ice_gathering_state" /\ events[k].payload = "gathering"

\* The connection ids whose task has left the block that reads State.
Configured == {i \in Ids : pc[i] \notin {"none", "start", "configuring", "lock_panic"}
                           \/ snapshot[i] # NoSnapshot}

\* C38: the stored ice_servers list and the subscriber are those of init in
\* every state: no step changes either, the host reads back the list it gave,
\* every connection is configured with one ICE server entry whose urls are
\* that list in the same order, and every event is sent to that subscriber.
C38_ConfigAndSubscriberFixed ==
    /\ [](/\ config.ice_servers \in IceServerLists /\ pid \in Pids
          /\ ConfigEncode(config).ice_servers = config.ice_servers
          /\ \A i \in Configured :
                /\ Len(snapshot[i].rtc_config.ice_servers) = 1
                /\ snapshot[i].rtc_config.ice_servers[1].urls = config.ice_servers
                /\ snapshot[i].pid = pid
          /\ \A i \in Ids : pc[i] \in {"building", "built", "installing", "recv", "exec",
                                       "closing", "done", "failed", "engine_panic"}
                            => i \in Configured
          /\ Len(sentTo) = Len(events)
          /\ \A k \in 1..Len(sentTo) : sentTo[k] = pid)
    /\ [][config' = config /\ pid' = pid]_vars

\* The second process gave init two servers; a connection was built, answered
\* a command, reported a candidate and was closed.
C38_Witness ==
    /\ pid = "pid2" /\ config.ice_servers = <<"turn:b", "stun:a">>
    /\ \E i \in Configured :
        /\ Positions("peer_connection_ready", i) # {}
        /\ Positions("ice_candidate", i) # {}
        /\ Positions("peer_connection_closed", i) # {}
        /\ \E k \in 1..Len(events) : events[k].id = i /\ events[k].seq > 0

====
